---- MODULE Spec2Model ----
(***************************************************************************)
(* vbench: the benchmark runner (vbench/runner.py, class BenchmarkRunner)  *)
(* over the sqlite store (vbench/db.py, class BenchmarkDB).                *)
(*                                                                         *)
(* Python's None is the empty tuple <<>> and a present value v is <<v>>,   *)
(* so that a column holding "a value or None" has one type.                *)
(* A dict with optional keys (a benchmark outcome) is a record whose       *)
(* DOMAIN holds the keys that are present.                                 *)
(***************************************************************************)
EXTENDS Integers, Sequences, FiniteSets, TLC

VARIABLES
    \* ---- BenchmarkDB: the four tables (db.py:23-46)
    db_benchmarks,      \* set of rows [checksum, name, description]
    db_results,         \* set of rows [checksum, revision, timestamp, ncalls, timing, traceback, nnochange]
    db_blacklist,       \* set of revisions
    db_branches,        \* set of rows [branch, revision]
    in_transaction,     \* begin_transaction() called and not yet commit_transaction()
    \* ---- GitRepo / BenchRepo (vbench.git), as the runner uses them
    commits,            \* repo.commits: sequence of [sha, timestamp], oldest first
    bench_repo,         \* [rev: checked-out revision or None, cleaned: hard_clean() since the last checkout]
    \* ---- BenchmarkRunner attributes (runner.py:47-90)
    benchmarks,         \* self._benchmarks: sequence of [name, checksum, description, start_date]
    existing,           \* 'skip' | 'min'
    use_blacklist,
    run_option,
    run_order,
    start_date,
    nochange_rerun_limit,
    \* ---- the timing harness (Benchmark.run in the sandbox)
    harness,            \* the timings a benchmark run can measure in this behaviour
    \* ---- run(): its position and locals (runner.py:112-154)
    pc,                 \* "idle" | "loop" | "retry" | "raised"
    error,              \* the exception that ended the last call, "none" otherwise
    revisions,          \* revisions = self._get_revisions_to_run()
    idx,                \* position of the for loop in revisions (1-based)
    blacklist,          \* blacklist = self.blacklist, the snapshot of runner.py:118
    ran_revisions,
    first_result,       \* (any_succeeded, n_active) of the first attempt while pc = "retry"
    passes,             \* number of run() calls started
    invocations,        \* this pass's calls of _run_and_write_results, in order
    \* ---- another client of the store
    store_call          \* its last call since run() returned: [op, args, before], or None

vars == <<db_benchmarks, db_results, db_blacklist, db_branches, in_transaction,
          commits, bench_repo, benchmarks, existing, use_blacklist, run_option,
          run_order, start_date, harness, pc, error, revisions, idx, blacklist,
          ran_revisions, first_result, passes, invocations, nochange_rerun_limit,
          store_call>>

db_vars == <<db_benchmarks, db_results, db_blacklist, db_branches, in_transaction>>
config_vars == <<commits, benchmarks, existing, use_blacklist, run_option, run_order,
                 start_date, harness, nochange_rerun_limit>>
run_vars == <<pc, error, revisions, idx, blacklist, ran_revisions, first_result, passes, invocations>>

-----------------------------------------------------------------------------
(* Values *)

None == <<>>
Some(v) == <<v>>
Val(x) == x[1]

\* Python truth of an optional number: None and 0 are false.
Truthy(x) == x # None /\ Val(x) # 0
\* Python truth of an optional string: None and '' are false.
TruthyStr(x) == x # None /\ Val(x) # ""

\* dict.get(key): the value wrapped, or None.
Get(d, key) == IF key \in DOMAIN d THEN Some(d[key]) ELSE None

Range(s) == {s[i] : i \in DOMAIN s}

-----------------------------------------------------------------------------
(* Bounds of the model *)

\* run() is called at most MaxPasses times in a behaviour.
MaxPasses == 3
\* nochange_rerun_limit, a constructor parameter (default 5).
NochangeRerunLimit == 1
\* The largest nochange_rerun_limit of the runs without end.
MaxRerunLimit == 2
\* Direct calls of increment_nochange stop at this counter value.
MaxNochange == 2
\* The longest list given to the benchmarks setter when registration is checked alone.
MaxBenchmarks == 2

\* run(): "n_active > 5" (runner.py:152).
QuarantineThreshold == 5

Checksums == {"c1", "c2"}
Names == {"n1", "n2"}
Branches == {"master"}

\* Timings in a unit in which they are whole numbers; all positive.
\* 1005 is exactly 0.5% above 1000, 1010 is 1% above 1000 and less than 0.5% above 1005.
Timings == {1000, 1005, 1010}
OneTiming == {1000}

-----------------------------------------------------------------------------
(* BenchmarkDB statements. Every statement runs on a connection of its own *)
(* (the conn property, db.py:102-104), hence in autocommit: its effect on  *)
(* the table is immediate and final.                                       *)

conn(table_after) == table_after

\* Primary key of benchmarks: checksum (db.py:24).
benchmarks_key_free(tab, checksum) == ~ \E row \in tab : row.checksum = checksum

\* write_benchmark (db.py:106-113): INSERT; IntegrityError on a stored checksum.
write_benchmark(tab, bm) ==
    IF benchmarks_key_free(tab, bm.checksum)
    THEN [table |-> conn(tab \cup {[checksum |-> bm.checksum, name |-> bm.name,
                                    description |-> bm.description]}),
          error |-> "none"]
    ELSE [table |-> tab, error |-> "IntegrityError"]

\* update_name (db.py:64-72): UPDATE ... SET checksum = benchmark.checksum
\* WHERE checksum = benchmark.checksum.
update_name(tab, bm) ==
    conn({IF row.checksum = bm.checksum
          THEN [row EXCEPT !.checksum = bm.checksum]
          ELSE row : row \in tab})

\* get_benchmarks (db.py:141-144), its index: the stored checksums.
get_benchmarks(tab) == {row.checksum : row \in tab}

\* A results table without its primary key.
results_key_unchecked(tab, checksum, revision) == TRUE

\* Primary key of results: (checksum, revision) (db.py:29-31).
results_key_free(tab, checksum, revision) ==
    ~ \E row \in tab : row.checksum = checksum /\ row.revision = revision

\* write_result (db.py:123-133): INSERT with nnochange = 0 unless given.
write_result(tab, checksum, revision, timestamp, ncalls, timing, traceback, nnochange) ==
    IF results_key_free(tab, checksum, revision)
    THEN [table |-> conn(tab \cup {[checksum |-> checksum, revision |-> revision,
                                    timestamp |-> timestamp, ncalls |-> ncalls,
                                    timing |-> timing, traceback |-> traceback,
                                    nnochange |-> nnochange]}),
          error |-> "none"]
    ELSE [table |-> tab, error |-> "IntegrityError"]

\* An UPDATE that counts down.
increment_nochange_down(tab, checksum, rev) ==
    conn({IF row.checksum = checksum /\ row.revision = rev
          THEN [row EXCEPT !.nnochange = @ - 1]
          ELSE row : row \in tab})

\* An UPDATE that writes the counter back as it is.
increment_nochange_unsaved(tab, checksum, rev) ==
    conn({IF row.checksum = checksum /\ row.revision = rev
          THEN [row EXCEPT !.nnochange = @]
          ELSE row : row \in tab})

\* increment_nochange (db.py:74-84): UPDATE of the rows matching (checksum, rev).
increment_nochange(tab, checksum, rev) ==
    conn({IF row.checksum = checksum /\ row.revision = rev
          THEN [row EXCEPT !.nnochange = @ + 1]
          ELSE row : row \in tab})

\* delete_benchmark_results (db.py:204-212) with rev given.
delete_benchmark_results(tab, checksum, rev) ==
    conn({row \in tab : ~ (row.checksum = checksum /\ row.revision = rev)})

\* get_benchmark_results (db.py:189-202) with rev given: the matching rows.
get_benchmark_results(tab, checksum, rev) ==
    {row \in tab : row.checksum = checksum /\ row.revision = rev}

\* get_rev_results (db.py:146-151): dict checksum -> row of the revision.
get_rev_results(tab, rev) ==
    LET rows == {row \in tab : row.revision = rev}
    IN  [c \in {row.checksum : row \in rows} |->
            CHOOSE row \in rows : row.checksum = c]

\* add_rev_blacklist (db.py:158-163): INSERT; primary key revision (db.py:40).
add_rev_blacklist(tab, rev) ==
    IF rev \notin tab
    THEN [table |-> conn(tab \cup {rev}), error |-> "none"]
    ELSE [table |-> tab, error |-> "IntegrityError"]

\* A store whose blacklist reads as empty.
get_rev_blacklist_empty(tab) == {}

\* get_rev_blacklist (db.py:165-167).
get_rev_blacklist(tab) == tab

\* clear_blacklist (db.py:169-171).
clear_blacklist(tab) == conn({})

\* add_rev_branch (db.py:173-176): insert unless the pair is recorded.
add_rev_branch(tab, rev, branch) ==
    IF \E row \in tab : row.branch = branch /\ row.revision = rev
    THEN tab
    ELSE conn(tab \cup {[branch |-> branch, revision |-> rev]})

\* begin_transaction / commit_transaction: called by the runner
\* (runner.py:186, 219, 228, 235); BenchmarkDB in db.py does not define them.
\* They open and commit a transaction of their own; no statement above runs
\* inside it, since each statement takes a fresh connection from conn.
begin_transaction == TRUE
commit_transaction == FALSE

-----------------------------------------------------------------------------
(* Inputs: benchmark objects, the results of the sandbox, commit histories *)

Benchmark(name, checksum, description, start) ==
    [name |-> name, checksum |-> checksum, description |-> description, start_date |-> start]

\* Grouping by the whole timestamp: every commit is a date of its own.
date_and_time(timestamp) == timestamp

\* Timestamps are day * 100 + hour; the calendar date of a timestamp is its day.
date(timestamp) == timestamp \div 100

\* One commit.
History1 == << [sha |-> "r2", timestamp |-> 210] >>
\* Two commits on two days.
History2 == << [sha |-> "r1", timestamp |-> 109], [sha |-> "r2", timestamp |-> 210] >>
\* Three commits, the first two on one day.
History3 == << [sha |-> "r1", timestamp |-> 109], [sha |-> "r2", timestamp |-> 117],
               [sha |-> "r3", timestamp |-> 210] >>

OneBenchmark == << Benchmark("n1", "c1", "d1", None) >>
\* Two benchmarks, the second one started on day 2.
ShortList == << Benchmark("n1", "c1", "d1", None), Benchmark("n2", "c2", "d2", Some(200)) >>
\* Six benchmark objects, five of them with one checksum; the sixth started on day 2.
LongList == << Benchmark("n1", "c1", "d1", None), Benchmark("n1", "c1", "d1", None),
               Benchmark("n1", "c1", "d1", None), Benchmark("n1", "c1", "d1", None),
               Benchmark("n1", "c1", "d1", None), Benchmark("n2", "c2", "d2", Some(200)) >>

\* Benchmark objects to register: two names for checksum c1, two for c2.
BenchmarkPool == {Benchmark("n1", "c1", "d1", None), Benchmark("n2", "c1", "d2", None),
                  Benchmark("n1", "c2", "d1", None), Benchmark("n2", "c2", "d2", None)}
BenchmarkLists == UNION {[1..n -> BenchmarkPool] : n \in 0..MaxBenchmarks}

\* What Benchmark.run() returns, as far as the runner reads it:
\* loops and timing on success, a traceback on failure.
Success(t) == [loops |-> 10, timing |-> t]
Failure == [traceback |-> "tb"]
Outcomes == {Success(t) : t \in harness} \cup {Failure}

\* The text sqlite stores in the String column ncalls for a loop count.
ToText(n) == CASE n = 0 -> "0" [] n = 1 -> "1" [] n = 10 -> "10" [] OTHER -> "n"

\* repo.sha_branches[rev] (vbench.git).
sha_branches(rev) == Branches

\* repo.commits.timestamps[rev]
timestamps(rev) ==
    LET i == CHOOSE i \in DOMAIN commits : commits[i].sha = rev
    IN  commits[i].timestamp

Orders(S) == {o \in [1..Cardinality(S) -> S] : Range(o) = S}

-----------------------------------------------------------------------------
(* BenchmarkRunner *)

\* _register_benchmarks, the loop of runner.py:229-234 over the benchmarks left.
RECURSIVE register_loop(_, _, _)
register_loop(bms, db_checksums, tab) ==
    IF bms = <<>> THEN [table |-> tab, error |-> "none"]
    ELSE LET bm == Head(bms) IN
         IF bm.checksum \in db_checksums
         THEN register_loop(Tail(bms), db_checksums, update_name(tab, bm))
         ELSE LET w == write_benchmark(tab, bm) IN
              IF w.error # "none" THEN w
              ELSE register_loop(Tail(bms), db_checksums, w.table)

\* _register_benchmarks (runner.py:223-235): db_checksums is read once, before the loop.
\* The transaction stays open when a statement raises.
_register_benchmarks(bms, tab) ==
    LET db_checksums == get_benchmarks(tab)
        r == register_loop(bms, db_checksums, tab)
    IN  [table |-> r.table, error |-> r.error,
         in_transaction |-> IF r.error = "none" THEN commit_transaction
                            ELSE begin_transaction]

\* A runner that re-runs every stored row under 'min', failed ones too.
need_to_run_failed_too(b, existing_results, timestamp) ==
    /\ ~ (b.start_date # None /\ Val(b.start_date) > timestamp)
    /\ \/ b.checksum \notin DOMAIN existing_results
       \/ /\ existing = "min"
          /\ existing_results[b.checksum].nnochange < nochange_rerun_limit

\* A runner that re-runs stored results whatever the policy is.
need_to_run_any_policy(b, existing_results, timestamp) ==
    /\ ~ (b.start_date # None /\ Val(b.start_date) > timestamp)
    /\ \/ b.checksum \notin DOMAIN existing_results
       \/ /\ TruthyStr(existing_results[b.checksum].ncalls)
          /\ existing_results[b.checksum].nnochange < nochange_rerun_limit

\* A runner that still re-runs a row whose counter is at the limit.
need_to_run_at_limit(b, existing_results, timestamp) ==
    /\ ~ (b.start_date # None /\ Val(b.start_date) > timestamp)
    /\ \/ b.checksum \notin DOMAIN existing_results
       \/ /\ existing = "min"
          /\ TruthyStr(existing_results[b.checksum].ncalls)
          /\ existing_results[b.checksum].nnochange <= nochange_rerun_limit

\* _get_benchmarks_for_rev (runner.py:291-316), one benchmark.
need_to_run(b, existing_results, timestamp) ==
    /\ ~ (b.start_date # None /\ Val(b.start_date) > timestamp)
    /\ \/ b.checksum \notin DOMAIN existing_results
       \/ /\ existing = "min"
          /\ TruthyStr(existing_results[b.checksum].ncalls)
          /\ existing_results[b.checksum].nnochange < nochange_rerun_limit

\* _get_benchmarks_for_rev (runner.py:291-316): the benchmarks to run, in list order.
_get_benchmarks_for_rev(tab, rev) ==
    LET existing_results == get_rev_results(tab, rev)
        timestamp == timestamps(rev)
    IN  SelectSeq(benchmarks, LAMBDA b : need_to_run(b, existing_results, timestamp))

\* _add_rev_branches (runner.py:163-167).
RECURSIVE add_branches(_, _, _)
add_branches(tab, rev, branches) ==
    IF branches = {} THEN tab
    ELSE LET branch == CHOOSE b \in branches : TRUE
         IN  add_branches(add_rev_branch(tab, rev, branch), rev, branches \ {branch})

_add_rev_branches(tab, rev) == add_branches(tab, rev, sha_branches(rev))

\* The comparison turned around: the stored row is kept when it is the worse one.
keeps_old_when_worse(old, new) == (new - old) * 1000 < 5 * new

\* runner.py:200-201 for a stored timing old and a new timing new, both present:
\* diff = (old - new) / new; the stored row is kept when diff < 0.005.
keeps_old(old, new) == (old - new) * 1000 < 5 * new

\* One iteration of the loop of runner.py:187-218: the outcome `timing` of `checksum`.
write_outcome(tab, checksum, rev, timing) ==
    LET b_prev_results == get_benchmark_results(tab, checksum, rev)
        old_timing == CHOOSE row \in b_prev_results : TRUE
        write(t) == write_result(t, checksum, rev, timestamps(rev),
                                 IF "loops" \in DOMAIN timing
                                 THEN Some(ToText(timing.loops)) ELSE None,
                                 Get(timing, "timing"), Get(timing, "traceback"), 0)
    IN  IF existing # "min" THEN write(tab)
        ELSE IF Cardinality(b_prev_results) >= 2
             THEN [table |-> tab, error |-> "AssertionError"]
        ELSE IF b_prev_results = {} THEN write(tab)
        ELSE IF Truthy(old_timing.timing) /\ "timing" \notin DOMAIN timing
             \* old_timing['timing'] - None
             THEN [table |-> tab, error |-> "TypeError"]
        ELSE IF Truthy(old_timing.timing)
                /\ keeps_old(Val(old_timing.timing), timing.timing)
             THEN [table |-> increment_nochange(tab, checksum, rev), error |-> "none"]
        ELSE write(delete_benchmark_results(tab, checksum, rev))

\* The loop with any_succeeded assigned from the current outcome alone.
RECURSIVE write_outcomes_last_decides(_, _, _, _, _)
write_outcomes_last_decides(order, results, rev, tab, any_succeeded) ==
    IF order = <<>>
    THEN [table |-> tab, any_succeeded |-> any_succeeded, error |-> "none"]
    ELSE LET checksum == Head(order)
             timing == results[checksum]
             any == "timing" \in DOMAIN timing
             w == write_outcome(tab, checksum, rev, timing)
         IN  IF w.error # "none"
             THEN [table |-> w.table, any_succeeded |-> any, error |-> w.error]
             ELSE write_outcomes_last_decides(Tail(order), results, rev, w.table, any)

\* The loop of runner.py:187-218 over results.iteritems(), in the order `order`.
RECURSIVE write_outcomes(_, _, _, _, _)
write_outcomes(order, results, rev, tab, any_succeeded) ==
    IF order = <<>>
    THEN [table |-> tab, any_succeeded |-> any_succeeded, error |-> "none"]
    ELSE LET checksum == Head(order)
             timing == results[checksum]
             any == any_succeeded \/ "timing" \in DOMAIN timing
             w == write_outcome(tab, checksum, rev, timing)
         IN  IF w.error # "none"
             THEN [table |-> w.table, any_succeeded |-> any, error |-> w.error]
             ELSE write_outcomes(Tail(order), results, rev, w.table, any)

\* What one use of the sandbox does (_run_revision, runner.py:237-289):
\* the build fails, or the subprocess leaves no results file (results = {}),
\* or it leaves one outcome per checksum it was given; stderr may name an
\* ImportError (hard_clean, runner.py:273-276).
SandboxRuns(active) ==
    LET keys == {b.checksum : b \in Range(active)} IN
    IF active = <<>>
    THEN {[build_ok |-> TRUE, results |-> <<>>, order |-> <<>>, hard_clean |-> FALSE]}
    ELSE {[build_ok |-> FALSE, results |-> <<>>, order |-> <<>>, hard_clean |-> FALSE]}
         \cup {[build_ok |-> TRUE, results |-> <<>>, order |-> <<>>, hard_clean |-> h] :
                    h \in BOOLEAN}
         \cup UNION {{[build_ok |-> TRUE, results |-> res, order |-> o, hard_clean |-> h] :
                        o \in Orders(keys), h \in BOOLEAN} : res \in [keys -> Outcomes]}

\* _run_and_write_results (runner.py:169-221) at revision rev, the sandbox doing sb.
_run_and_write_results(rev, sb) ==
    LET active_benchmarks == _get_benchmarks_for_rev(db_results, rev)
        branches == _add_rev_branches(db_branches, rev)
        w == write_outcomes(sb.order, sb.results, rev, db_results, FALSE)
        same == [outcome |-> "returned", any_succeeded |-> FALSE, n_active |-> 0,
                 results |-> db_results, branches |-> branches,
                 bench_repo |-> bench_repo, in_transaction |-> in_transaction,
                 sandbox |-> FALSE]
    IN  IF active_benchmarks = <<>> THEN same
        ELSE IF ~ sb.build_ok
        THEN [same EXCEPT !.outcome = "FailedToBuildError", !.sandbox = TRUE,
                          !.bench_repo = [rev |-> Some(rev), cleaned |-> FALSE]]
        ELSE [outcome |-> IF w.error = "none" THEN "returned" ELSE w.error,
              any_succeeded |-> w.any_succeeded,
              n_active |-> Len(active_benchmarks),
              results |-> w.table, branches |-> branches,
              bench_repo |-> [rev |-> Some(rev), cleaned |-> sb.hard_clean],
              in_transaction |-> IF w.error = "none" THEN commit_transaction
                                 ELSE begin_transaction,
              sandbox |-> TRUE]

\* _RUN_ORDERS['multires'] (vbench.utils.multires_order): strides halved from the
\* first power of two that covers the list, each pass adding the positions not yet out.
RECURSIVE multires_from(_, _, _)
multires_from(stride, n, out) ==
    IF stride = 0 THEN out
    ELSE LET new == SelectSeq([i \in 1..n |-> i - 1],
                              LAMBDA j : j % stride = 0 /\ j \notin Range(out))
         IN  multires_from(stride \div 2, n, out \o new)

RECURSIVE cover(_, _)
cover(stride, n) == IF stride >= n THEN stride ELSE cover(2 * stride, n)

multires_order(x) ==
    LET positions == multires_from(cover(1, Len(x)), Len(x), <<>>)
    IN  [i \in 1..Len(x) |-> x[positions[i] + 1]]

reverse(x) == [i \in 1..Len(x) |-> x[Len(x) + 1 - i]]

\* A table of orders that knows every name it is asked for.
_RUN_ORDERS_unchecked == {"normal", "reverse", "multires", "bogus"}

\* _RUN_ORDERS (runner.py:14-18).
_RUN_ORDERS == {"normal", "reverse", "multires"}

is_str(option, s) == "str" \in DOMAIN option /\ option.str = s

\* _get_revisions_to_run (runner.py:318-351): [revs, error].
_get_revisions_to_run ==
    LET rev_by_timestamp ==
            IF start_date = None THEN commits
            ELSE SelectSeq(commits, LAMBDA c : c.timestamp >= Val(start_date))
        n == Len(rev_by_timestamp)
        \* groupby(datetime.date) and x[-1]: the last commit of every date
        eod == SelectSeq(rev_by_timestamp, LAMBDA c :
                   \E i \in 1..n :
                       /\ rev_by_timestamp[i] = c
                       /\ \A j \in (i + 1)..n :
                              date(rev_by_timestamp[j].timestamp) # date(c.timestamp))
        every(N) == SelectSeq(rev_by_timestamp, LAMBDA c :
                   \E i \in 1..n : rev_by_timestamp[i] = c /\ (i - 1) % N = 0)
        picked == IF is_str(run_option, "eod") THEN eod
                  ELSE IF is_str(run_option, "all") THEN rev_by_timestamp
                  ELSE IF is_str(run_option, "last") THEN SubSeq(rev_by_timestamp, n, n)
                  ELSE every(run_option.int)
        revs_to_run == [i \in 1..Len(picked) |-> picked[i].sha]
    IN  IF "int" \notin DOMAIN run_option
           /\ ~ (is_str(run_option, "eod") \/ is_str(run_option, "all")
                  \/ is_str(run_option, "last"))
        THEN [revs |-> <<>>, error |-> "ValueError"]
        ELSE IF run_order \notin _RUN_ORDERS
        THEN [revs |-> <<>>, error |-> "ValueError"]
        ELSE [revs |-> IF run_order = "normal" THEN revs_to_run
                       ELSE IF run_order = "reverse" THEN reverse(revs_to_run)
                       ELSE multires_order(revs_to_run),
              error |-> "none"]

\* A runner that logs the blacklisting and does not store it.
_blacklist_rev_unsaved(tab, r) == [table |-> tab, error |-> "none"]

\* _blacklist_rev (runner.py:107-110).
_blacklist_rev(tab, r) ==
    IF use_blacklist THEN add_rev_blacklist(tab, r)
    ELSE [table |-> tab, error |-> "none"]

\* runner.py:134-138: the revision gets its second chance.
retries(any_succeeded, n_active) == n_active # 0 /\ ~ any_succeeded

\* A threshold that is off by one.
quarantines_from_threshold(any_succeeded2, n_active) ==
    ~ any_succeeded2 /\ n_active >= QuarantineThreshold

\* runner.py:152: the revision is blacklisted after its second chance.
quarantines(any_succeeded2, n_active) ==
    ~ any_succeeded2 /\ n_active > QuarantineThreshold

-----------------------------------------------------------------------------
(* run() (runner.py:112-154), one action per step of its loop *)

rev == revisions[idx]

\* The record of one call of _run_and_write_results: its arguments, what the
\* sandbox returned, the results table as it found it, and how it ended.
Invocation(r, attempt, sb, res) ==
    [rev |-> r, attempt |-> attempt, outcome |-> res.outcome,
     any_succeeded |-> res.any_succeeded, n_active |-> res.n_active,
     sandbox |-> res.sandbox, cleaned |-> bench_repo.cleaned,
     results |-> sb.results, before |-> db_results]

\* What every call of _run_and_write_results leaves behind.
Orchestrated(res) ==
    /\ db_results' = res.results
    /\ db_branches' = res.branches
    /\ in_transaction' = res.in_transaction
    /\ UNCHANGED db_benchmarks

Raise(e) == pc' = "raised" /\ error' = e

\* runner.py:113-118: select the revisions, take the blacklist snapshot;
\* p is the number of calls counted with this one.
run_starts(p) ==
    /\ passes' = p
    /\ LET sel == _get_revisions_to_run IN
       /\ revisions' = sel.revs
       /\ IF sel.error # "none"
          THEN Raise(sel.error) /\ blacklist' = {}
          ELSE /\ pc' = "loop"
               /\ error' = "none"
               /\ blacklist' = get_rev_blacklist(db_blacklist)
    /\ idx' = 1
    /\ ran_revisions' = <<>>
    /\ invocations' = <<>>
    /\ first_result' = None
    /\ store_call' = None
    /\ UNCHANGED <<db_vars, config_vars, bench_repo>>

\* A call of run(), one of at most MaxPasses.
run_begin ==
    /\ pc \in {"idle", "raised"}
    /\ passes < MaxPasses
    /\ run_starts(passes + 1)

\* A call of run() that is not counted: run() called again and again, for ever.
run_again ==
    /\ pc \in {"idle", "raised"}
    /\ run_starts(passes)

\* runner.py:120-122
run_skip_blacklisted ==
    /\ pc = "loop" /\ idx <= Len(revisions)
    /\ use_blacklist /\ rev \in blacklist
    /\ idx' = idx + 1
    /\ UNCHANGED <<db_vars, config_vars, bench_repo, pc, error, revisions, blacklist,
                   ran_revisions, first_result, passes, invocations, store_call>>

\* An entry without the inner tuple.
ran_entry_flat(r, any_succeeded, n_active) == <<r, any_succeeded, n_active>>

\* runner.py:132: the entry of ran_revisions.
ran_entry(r, any_succeeded, n_active) == <<r, <<any_succeeded, n_active>> >>

\* runner.py:124-140: the first attempt at a revision, up to the hard clean.
run_first_attempt ==
    /\ pc = "loop" /\ idx <= Len(revisions)
    /\ ~ (use_blacklist /\ rev \in blacklist)
    /\ \E sb \in SandboxRuns(_get_benchmarks_for_rev(db_results, rev)) :
         LET res == _run_and_write_results(rev, sb)
             bl == _blacklist_rev(db_blacklist, rev)
         IN  /\ Orchestrated(res)
             /\ invocations' = Append(invocations, Invocation(rev, 1, sb, res))
             /\ IF res.outcome = "FailedToBuildError"
                THEN /\ db_blacklist' = bl.table
                     /\ bench_repo' = res.bench_repo
                     /\ IF bl.error # "none" THEN Raise(bl.error) /\ idx' = idx
                        ELSE idx' = idx + 1 /\ UNCHANGED <<pc, error>>
                     /\ UNCHANGED <<ran_revisions, first_result>>
                ELSE IF res.outcome # "returned"
                THEN /\ Raise(res.outcome)
                     /\ bench_repo' = res.bench_repo
                     /\ UNCHANGED <<db_blacklist, idx, ran_revisions, first_result>>
                ELSE /\ ran_revisions' =
                            Append(ran_revisions,
                                   ran_entry(rev, res.any_succeeded, res.n_active))
                     /\ UNCHANGED <<db_blacklist, error>>
                     /\ IF retries(res.any_succeeded, res.n_active)
                        THEN /\ bench_repo' = [res.bench_repo EXCEPT !.cleaned = TRUE]
                             /\ first_result' = Some(<<res.any_succeeded, res.n_active>>)
                             /\ pc' = "retry"
                             /\ idx' = idx
                        ELSE /\ bench_repo' = res.bench_repo
                             /\ idx' = idx + 1
                             /\ UNCHANGED <<pc, first_result>>
    /\ UNCHANGED <<config_vars, revisions, blacklist, passes, store_call>>

\* runner.py:141-153: the second chance.
run_second_attempt ==
    /\ pc = "retry"
    /\ \E sb \in SandboxRuns(_get_benchmarks_for_rev(db_results, rev)) :
         LET res == _run_and_write_results(rev, sb)
             n_active == Val(first_result)[2]
             bl == IF quarantines(res.any_succeeded, n_active)
                   THEN _blacklist_rev(db_blacklist, rev)
                   ELSE [table |-> db_blacklist, error |-> "none"]
         IN  /\ Orchestrated(res)
             /\ invocations' = Append(invocations, Invocation(rev, 2, sb, res))
             /\ bench_repo' = res.bench_repo
             /\ IF res.outcome = "FailedToBuildError"
                THEN /\ pc' = "loop" /\ idx' = idx + 1
                     /\ UNCHANGED <<db_blacklist, error>>
                ELSE IF res.outcome # "returned"
                THEN Raise(res.outcome) /\ UNCHANGED <<db_blacklist, idx>>
                ELSE /\ db_blacklist' = bl.table
                     /\ IF bl.error # "none" THEN Raise(bl.error) /\ idx' = idx
                        ELSE pc' = "loop" /\ idx' = idx + 1 /\ UNCHANGED error
    /\ first_result' = None
    /\ UNCHANGED <<config_vars, revisions, blacklist, ran_revisions, passes, store_call>>

\* runner.py:154
run_return ==
    /\ pc = "loop" /\ idx > Len(revisions)
    /\ pc' = "idle"
    /\ UNCHANGED <<db_vars, config_vars, bench_repo, error, revisions, idx, blacklist,
                   ran_revisions, first_result, passes, invocations, store_call>>

\* The benchmarks setter (runner.py:95-98): assign, then _register_benchmarks.
set_benchmarks ==
    /\ pc \in {"idle", "raised"}
    /\ \E bms \in BenchmarkLists :
         LET r == _register_benchmarks(bms, db_benchmarks) IN
         /\ benchmarks' = bms
         /\ db_benchmarks' = r.table
         /\ in_transaction' = r.in_transaction
         /\ error' = r.error
    /\ UNCHANGED <<db_results, db_blacklist, db_branches, commits, bench_repo, existing,
                   use_blacklist, run_option, run_order, start_date, harness, pc, revisions,
                   idx, blacklist, ran_revisions, first_result, passes, invocations,
                   nochange_rerun_limit, store_call>>

-----------------------------------------------------------------------------
(* Calls of the store by another client of BenchmarkDB, between two run()s *)

store_write_result ==
    /\ pc = "idle"
    /\ \E checksum \in Checksums, c \in Range(commits), timing \in Outcomes :
         LET w == write_result(db_results, checksum, c.sha, c.timestamp,
                               IF "loops" \in DOMAIN timing
                               THEN Some(ToText(timing.loops)) ELSE None,
                               Get(timing, "timing"), Get(timing, "traceback"), 0)
         IN  /\ db_results' = w.table /\ error' = w.error
             /\ store_call' = Some([op |-> "write_result", args |-> <<checksum, c.sha>>,
                                    before |-> db_results])
    /\ UNCHANGED <<db_benchmarks, db_blacklist, db_branches, in_transaction, config_vars,
                   bench_repo, pc, revisions, idx, blacklist, ran_revisions, first_result,
                   passes, invocations>>

store_increment_nochange ==
    /\ pc = "idle"
    /\ \E checksum \in Checksums, c \in Range(commits) :
         /\ \A row \in db_results : row.nnochange < MaxNochange
         /\ db_results' = increment_nochange(db_results, checksum, c.sha)
         /\ error' = "none"
         /\ store_call' = Some([op |-> "increment_nochange", args |-> <<checksum, c.sha>>,
                                before |-> db_results])
    /\ UNCHANGED <<db_benchmarks, db_blacklist, db_branches, in_transaction, config_vars,
                   bench_repo, pc, revisions, idx, blacklist, ran_revisions, first_result,
                   passes, invocations>>

store_clear_blacklist ==
    /\ pc = "idle"
    /\ db_blacklist' = clear_blacklist(db_blacklist)
    /\ error' = "none"
    /\ store_call' = Some([op |-> "clear_blacklist", args |-> <<>>, before |-> {}])
    /\ UNCHANGED <<db_benchmarks, db_results, db_branches, in_transaction, config_vars,
                   bench_repo, pc, revisions, idx, blacklist, ran_revisions, first_result,
                   passes, invocations>>

-----------------------------------------------------------------------------
(* The runner over a fresh store *)

RunOptions == {[str |-> "all"], [str |-> "last"], [str |-> "eod"], [int |-> 2], [str |-> "bogus"]}
RunOrders == {"normal", "reverse", "multires", "bogus"}

\* The benchmarks table after registering bms in an empty store one benchmark
\* at a time; BenchmarkRunner.__init__ registers its benchmarks (runner.py:90).
Registered(bms) ==
    {[checksum |-> b.checksum, name |-> b.name, description |-> b.description] :
        b \in Range(bms)}

\* The loop over two revisions; every timing the same.
InitDriver ==
    /\ benchmarks \in {ShortList, LongList}
    /\ commits = History2
    /\ existing \in {"skip", "min"}
    /\ use_blacklist \in BOOLEAN
    /\ run_option \in {[str |-> "all"], [str |-> "bogus"]}
    /\ run_order \in {"normal", "bogus"}
    /\ start_date = None
    /\ harness = OneTiming
    /\ nochange_rerun_limit = NochangeRerunLimit

\* One revision run again and again; timings around the 0.5% margin.
InitRerun ==
    /\ benchmarks \in {ShortList, LongList}
    /\ commits = History1
    /\ existing \in {"skip", "min"}
    /\ use_blacklist \in BOOLEAN
    /\ run_option = [str |-> "all"]
    /\ run_order = "normal"
    /\ start_date = None
    /\ harness = Timings
    /\ nochange_rerun_limit = NochangeRerunLimit

\* Every selection of revisions, one benchmark.
InitSelect ==
    /\ benchmarks = OneBenchmark
    /\ commits = History3
    /\ existing = "skip"
    /\ use_blacklist = TRUE
    /\ run_option \in RunOptions
    /\ run_order \in RunOrders
    /\ start_date \in {None, Some(117)}
    /\ harness = OneTiming
    /\ nochange_rerun_limit = NochangeRerunLimit

InitState ==
    /\ db_benchmarks = Registered(benchmarks)
    /\ db_results = {}
    /\ db_blacklist = {}
    /\ db_branches = {}
    /\ in_transaction = commit_transaction
    /\ bench_repo = [rev |-> None, cleaned |-> FALSE]
    /\ pc = "idle"
    /\ error = "none"
    /\ revisions = <<>>
    /\ idx = 1
    /\ blacklist = {}
    /\ ran_revisions = <<>>
    /\ first_result = None
    /\ passes = 0
    /\ invocations = <<>>
    /\ store_call = None

Init == (InitDriver \/ InitRerun) /\ InitState

Next ==
    \/ run_begin
    \/ run_skip_blacklisted
    \/ run_first_attempt
    \/ run_second_attempt
    \/ run_return

Spec == Init /\ [][Next]_vars

\* The runner and another client of the store, over one revision.
InitCalls ==
    /\ benchmarks = ShortList
    /\ commits = History1
    /\ existing \in {"skip", "min"}
    /\ use_blacklist = TRUE
    /\ run_option = [str |-> "all"]
    /\ run_order = "normal"
    /\ start_date = None
    /\ harness = OneTiming
    /\ nochange_rerun_limit = NochangeRerunLimit

StoreCall == store_write_result \/ store_increment_nochange \/ store_clear_blacklist

InitWithCalls == InitCalls /\ InitState

NextStore == Next \/ StoreCall

SpecStore == InitWithCalls /\ [][NextStore]_vars

\* Registration alone, from an empty store: the runner's constructor before it
\* assigns its benchmarks (runner.py:61-62), then any number of assignments.
InitRegister ==
    /\ benchmarks = <<>>
    /\ commits = History1
    /\ existing = "skip"
    /\ use_blacklist = TRUE
    /\ run_option = [str |-> "all"]
    /\ run_order = "normal"
    /\ start_date = None
    /\ harness = OneTiming
    /\ nochange_rerun_limit = NochangeRerunLimit

InitRegistration == InitRegister /\ InitState

SpecRegister == InitRegistration /\ [][set_benchmarks]_vars

\* One revision run again and again, without end. run() is sequential code: a
\* call that has started goes on to its next step, and the caller calls it again.
InitRepeat ==
    /\ benchmarks = ShortList
    /\ commits = History1
    /\ existing \in {"skip", "min"}
    /\ use_blacklist = TRUE
    /\ run_option = [str |-> "all"]
    /\ run_order = "normal"
    /\ start_date = None
    /\ harness = Timings
    /\ nochange_rerun_limit \in 1..MaxRerunLimit

InitRepetition == InitRepeat /\ InitState

NextRepeat ==
    \/ run_again
    \/ run_skip_blacklisted
    \/ run_first_attempt
    \/ run_second_attempt
    \/ run_return

SpecRepeat == InitRepetition /\ [][NextRepeat]_vars /\ WF_vars(NextRepeat)

\* The selection of revisions alone.
InitSelection == InitSelect /\ InitState

SpecSelect == InitSelection /\ [][Next]_vars

-----------------------------------------------------------------------------
(* Properties *)

\* The step is a call of _run_and_write_results.
Invoking == Len(invocations') = Len(invocations) + 1
\* The call the step makes.
Invoked == invocations'[Len(invocations')]
\* The step starts a pass of run() that gets to its loop.
BeginsPass == passes' = passes + 1 /\ pc' = "loop"
\* The results table as call i of this pass left it.
After(i) == IF i = Len(invocations) THEN db_results ELSE invocations[i + 1].before
\* The rows of one (checksum, revision) pair.
RowsOf(tab, checksum, r) == {row \in tab : row.checksum = checksum /\ row.revision = r}

\* C1. Blacklist exclusion: with use_blacklist enabled, run() never calls
\* _run_and_write_results for a revision that is in the stored blacklist, and the
\* stored blacklist never loses a revision (nothing here clears it): a revision
\* blacklisted when a pass starts is not run in that pass nor in a later one.
C1_BlacklistExclusion ==
    [][ /\ (use_blacklist /\ Invoking) => Invoked.rev \notin db_blacklist
        /\ (use_blacklist /\ Invoking) => Invoked.rev \notin blacklist
        /\ db_blacklist \subseteq db_blacklist'
        /\ BeginsPass => blacklist' = db_blacklist ]_vars

\* A second pass has skipped a blacklisted revision and run another one.
C1_Witness ==
    /\ use_blacklist /\ pc = "idle" /\ passes >= 2
    /\ invocations # <<>>
    /\ \E r \in blacklist :
         /\ r \in Range(revisions)
         /\ \A i \in DOMAIN invocations : invocations[i].rev # r

\* The step is a first attempt that raised the build failure.
FirstAttemptFailsToBuild ==
    Invoking /\ Invoked.attempt = 1 /\ Invoked.outcome = "FailedToBuildError"

\* What C2 says of one step.
BuildFailureBlacklists ==
    /\ FirstAttemptFailsToBuild =>
           rev \in db_blacklist' /\ pc' = "loop" /\ idx' = idx + 1
    /\ pc' = "idle" =>
           \A i \in DOMAIN invocations' :
               (invocations'[i].attempt = 1 /\ invocations'[i].outcome = "FailedToBuildError")
                   => /\ invocations'[i].rev \in db_blacklist'
                      /\ \A j \in DOMAIN invocations' :
                             invocations'[j].rev = invocations'[i].rev => j = i
    /\ BeginsPass =>
           \A i \in DOMAIN invocations :
               (invocations[i].attempt = 1 /\ invocations[i].outcome = "FailedToBuildError")
                   => invocations[i].rev \in blacklist'
    /\ Invoking => Invoked.rev \notin blacklist

\* C2 as stated: when the first attempt at a revision raises a build failure, the
\* revision is in the blacklist when the pass ends, it is not retried in that pass,
\* the loop goes on to the next revision, and the next pass does not attempt it.
C2_Original == [][BuildFailureBlacklists]_vars

\* C2, amended: the same, with use_blacklist enabled.
C2_BuildFailureBlacklists == [][use_blacklist => BuildFailureBlacklists]_vars

\* A second pass is over; the revision whose build failed in the first was skipped.
\* (Two benchmarks cannot reach the quarantine threshold, so the build failure is
\* the one way into the blacklist.)
C2_Witness ==
    /\ use_blacklist /\ benchmarks = ShortList
    /\ pc = "idle" /\ passes = 2
    /\ blacklist # {}
    /\ \A r \in blacklist : \A i \in DOMAIN invocations : invocations[i].rev # r
    /\ invocations # <<>>

\* C3. Under either existing-policy, whatever run() and other writers of the store
\* do, the results table holds at most one row per (checksum, revision): a write
\* for a stored pair is rejected (IntegrityError) instead of adding a second row.
C3_OneRowPerPair ==
    \A x \in db_results, y \in db_results :
        (x.checksum = y.checksum /\ x.revision = y.revision) => x = y

\* After a pass, a write_result for a stored pair has just been rejected.
C3_Witness ==
    /\ passes >= 1 /\ pc = "idle"
    /\ error = "IntegrityError"
    /\ db_results # {}

\* C4. Under 'min', no call of _run_and_write_results raises the timing stored
\* for a (checksum, revision) pair: the pair keeps a row, with a timing less than
\* or equal to the one stored before.
C4_MinMonotone ==
    existing = "min" =>
        \A i \in DOMAIN invocations : \A old \in invocations[i].before :
            old.timing # None =>
                \E row \in RowsOf(After(i), old.checksum, old.revision) :
                    row.timing # None /\ Val(row.timing) <= Val(old.timing)

\* A re-run under 'min' has replaced a stored timing by a smaller one.
C4_Witness ==
    /\ existing = "min"
    /\ \E i \in DOMAIN invocations : \E old \in invocations[i].before :
         \E row \in RowsOf(After(i), old.checksum, old.revision) :
            old.timing # None /\ row.timing # None /\ Val(row.timing) < Val(old.timing)

\* new is better than old by more than 0.5%.
BetterByMoreThanMargin(old, new) == (old - new) * 1000 > 5 * new

\* C5 as stated: under 'min', for every outcome the sandbox returns for a pair with
\* a stored row, the row is replaced by the new timing with nnochange = 0, the new
\* timing being better by more than 0.5%, or the stored timing stays and nnochange
\* grows by exactly 1; an outcome for a pair without a row is stored with nnochange = 0.
C5_ReplaceOrIncrement ==
    existing = "min" =>
        \A i \in DOMAIN invocations : \A c \in DOMAIN invocations[i].results :
            LET inv == invocations[i]
                new == inv.results[c]
                prev == RowsOf(inv.before, c, inv.rev)
                now == RowsOf(After(i), c, inv.rev)
            IN  IF prev = {}
                THEN \E row \in now : row.timing = Get(new, "timing") /\ row.nnochange = 0
                ELSE \A old \in prev : \E row \in now :
                        \/ /\ row.timing = Get(new, "timing") /\ row.nnochange = 0
                           /\ "timing" \in DOMAIN new /\ old.timing # None
                           /\ BetterByMoreThanMargin(Val(old.timing), new.timing)
                        \/ /\ row.timing = old.timing
                           /\ row.nnochange = old.nnochange + 1

C7_NeverHalts ==
    /\ pc = "raised" => error = "ValueError"
    /\ (pc = "idle" /\ passes > 0) =>
           \A k \in DOMAIN revisions :
               \/ use_blacklist /\ revisions[k] \in blacklist
               \/ \E i \in DOMAIN invocations : invocations[i].rev = revisions[k]

\* The step makes the first call for a revision, and the call returns.
FirstAttemptReturns == Invoking /\ Invoked.attempt = 1 /\ Invoked.outcome = "returned"

\* The step makes the second call for a revision.
SecondAttempt == Invoking /\ Invoked.attempt = 2

\* The step adds the current revision to the stored blacklist.
BlacklistsRev == rev \in db_blacklist' /\ rev \notin db_blacklist

\* The second chance of a revision, with the blacklist enabled or not:
\* a first call that returns with at least one active benchmark and no success is
\* followed, after a hard clean, by exactly one more call for the same revision,
\* and nothing else is; the revision is blacklisted after that call iff the call
\* returns without a success, the first call counted more than
\* QuarantineThreshold active benchmarks, and blacklisting is enabled.
SecondChance(enabled) ==
    /\ FirstAttemptReturns =>
          IF Invoked.n_active >= 1 /\ ~ Invoked.any_succeeded
          THEN pc' = "retry" /\ idx' = idx /\ bench_repo'.cleaned /\ ~ BlacklistsRev
          ELSE pc' = "loop" /\ idx' = idx + 1 /\ db_blacklist' = db_blacklist
    /\ pc' = "retry" =>
          FirstAttemptReturns /\ Invoked.n_active >= 1 /\ ~ Invoked.any_succeeded
    /\ pc = "retry" => SecondAttempt /\ pc' # "retry"
    /\ SecondAttempt =>
          /\ pc = "retry" /\ Invoked.rev = rev /\ Invoked.cleaned
          /\ invocations[Len(invocations)].rev = rev
          /\ invocations[Len(invocations)].attempt = 1
          /\ BlacklistsRev <=>
                /\ enabled
                /\ Invoked.outcome = "returned"
                /\ ~ Invoked.any_succeeded
                /\ invocations[Len(invocations)].n_active > QuarantineThreshold

\* C8 as stated: the rule, whatever use_blacklist is.
C8_Original == [][SecondChance(TRUE)]_vars

\* C8. With use_blacklist enabled, a first attempt that builds, has at least one
\* active benchmark and no success is retried exactly once after a hard clean, and
\* the revision is blacklisted iff the second attempt builds, again has no success
\* and the active count of the first attempt exceeds 5; with use_blacklist
\* disabled the retry is the same and the revision is never blacklisted.
C8_Quarantine == [][SecondChance(use_blacklist)]_vars

\* A revision with six active benchmarks has been retried and blacklisted.
C8_Witness ==
    /\ use_blacklist
    /\ \E i \in DOMAIN invocations :
         /\ i > 1
         /\ invocations[i].attempt = 2 /\ invocations[i].outcome = "returned"
         /\ ~ invocations[i].any_succeeded
         /\ invocations[i - 1].n_active > QuarantineThreshold
         /\ invocations[i - 1].rev = invocations[i].rev
         /\ invocations[i].rev \in db_blacklist
         /\ invocations[i].rev \notin blacklist

\* Condition (a) of the active set: no start date, or one not after the commit.
StartedBy(b, timestamp) == b.start_date = None \/ Val(b.start_date) <= timestamp

\* The active set of the revision of commit c holds benchmark b iff (a) holds and
\* b has no stored row for the revision, or the policy is 'min' and a stored row
\* has nnochange below the limit and satisfies what else is asked of it.
ActiveSet(asked(_)) ==
    \A k \in DOMAIN commits : \A j \in DOMAIN benchmarks :
        LET c == commits[k]
            b == benchmarks[j]
            rows == RowsOf(db_results, b.checksum, c.sha)
        IN  b \in Range(_get_benchmarks_for_rev(db_results, c.sha)) <=>
                /\ StartedBy(b, c.timestamp)
                /\ \/ rows = {}
                   \/ /\ existing = "min"
                      /\ \E row \in rows :
                            row.nnochange < nochange_rerun_limit /\ asked(row)

\* Nothing else is asked of the stored row.
AnyRow(row) == TRUE

\* The stored row has a non-empty ncalls: it is the row of a run that succeeded.
HasCalls(row) == TruthyStr(row.ncalls)

\* C9 as stated: no other condition on the stored row.
C9_Original == ActiveSet(AnyRow)

\* C9. A benchmark is active for a revision iff its start date is absent or not
\* after the commit, and it has no stored result for the revision, or the policy
\* is 'min', the stored row has a non-empty ncalls and its nnochange is below the
\* re-run limit.
C9_ActiveSet == ActiveSet(HasCalls)

\* Under 'min', a revision has a stored success that is active again and a
\* stored failure, with nnochange below the limit, that is not.
C9_Witness ==
    /\ existing = "min"
    /\ \E k \in DOMAIN commits :
         LET active == Range(_get_benchmarks_for_rev(db_results, commits[k].sha))
             rows == {row \in db_results : row.revision = commits[k].sha}
         IN  /\ \E row \in rows :
                  /\ HasCalls(row) /\ row.nnochange < nochange_rerun_limit
                  /\ \E b \in active : b.checksum = row.checksum
             /\ \E row \in rows :
                  /\ ~ HasCalls(row) /\ row.nnochange < nochange_rerun_limit
                  /\ \E j \in DOMAIN benchmarks : benchmarks[j].checksum = row.checksum
                  /\ \A b \in active : b.checksum # row.checksum

\* C10 as stated: registering a list of benchmarks never raises a duplicate-key
\* error, leaves one row per checksum, and changes no row when the list is the
\* one registered just before.
C10_IdempotentUpsert ==
    [][ /\ error' # "IntegrityError"
        /\ \A x \in db_benchmarks', y \in db_benchmarks' : x.checksum = y.checksum => x = y
        /\ benchmarks' = benchmarks => db_benchmarks' = db_benchmarks ]_vars

\* C11 as stated: after a registration that raises nothing, the stored row of
\* every registered benchmark whose checksum was stored before carries the name
\* and the description of a registered benchmark with that checksum.
C11_UpdatesNameAndDescription ==
    [][ error' = "none" =>
          \A j \in DOMAIN benchmarks' :
              benchmarks'[j].checksum \in get_benchmarks(db_benchmarks) =>
                  \E row \in db_benchmarks' : \E k \in DOMAIN benchmarks' :
                      /\ row.checksum = benchmarks'[j].checksum
                      /\ benchmarks'[k].checksum = row.checksum
                      /\ row.name = benchmarks'[k].name
                      /\ row.description = benchmarks'[k].description ]_vars

\* C12 as stated: increment_nochange(checksum, rev) adds exactly 1 to nnochange of
\* the one row of (checksum, rev) and changes no other row; without such a row
\* the call ends in an error.
C12_IncrementOrFail ==
    (store_call # None /\ Val(store_call).op = "increment_nochange") =>
        LET call == Val(store_call)
            rows == RowsOf(call.before, call.args[1], call.args[2])
        IN  IF rows = {}
            THEN error # "none"
            ELSE /\ Cardinality(rows) = 1
                 /\ error = "none"
                 /\ db_results = {IF row \in rows THEN [row EXCEPT !.nnochange = @ + 1]
                                  ELSE row : row \in call.before}

\* C13 as stated: no call of _run_and_write_results lowers the nnochange stored
\* for a (checksum, revision) pair, and under 'skip' no call changes it.
C13_Original ==
    \A i \in DOMAIN invocations : \A old \in invocations[i].before :
        \A row \in RowsOf(After(i), old.checksum, old.revision) :
            /\ row.nnochange >= old.nnochange
            /\ existing # "min" => row.nnochange = old.nnochange

\* C13. A call of _run_and_write_results lowers the nnochange stored for a
\* (checksum, revision) pair only by replacing the row, under 'min', with a new
\* result of a smaller timing, whose nnochange is 0; otherwise nnochange stays or
\* grows, and under 'skip' the stored row is never modified.
C13_NoChangeCounter ==
    \A i \in DOMAIN invocations : \A old \in invocations[i].before :
        \A row \in RowsOf(After(i), old.checksum, old.revision) :
            /\ \/ row.nnochange >= old.nnochange
               \/ /\ existing = "min" /\ row.nnochange = 0
                  /\ old.timing # None /\ row.timing # None
                  /\ Val(row.timing) < Val(old.timing)
            /\ existing # "min" => row = old

\* Under 'min', a row with nnochange 1 has been replaced by one with nnochange 0.
C13_Witness ==
    /\ existing = "min"
    /\ \E i \in DOMAIN invocations : \E old \in invocations[i].before :
         \E row \in RowsOf(After(i), old.checksum, old.revision) :
            old.nnochange >= 1 /\ row.nnochange = 0

\* C19. Every stored row has 0 <= nnochange <= nochange_rerun_limit, and a call of
\* _run_and_write_results that finds a row at the limit does not run its
\* benchmark and leaves the row as it is.
C19_CounterWithinLimit ==
    /\ \A row \in db_results :
          0 <= row.nnochange /\ row.nnochange <= nochange_rerun_limit
    /\ \A i \in DOMAIN invocations : \A old \in invocations[i].before :
          old.nnochange >= nochange_rerun_limit =>
              /\ old.checksum \notin DOMAIN invocations[i].results
              /\ old \in After(i)

\* With limit 2, a call that ran the sandbox found a row at the limit and left it.
C19_Witness ==
    /\ nochange_rerun_limit = MaxRerunLimit
    /\ \E i \in DOMAIN invocations : \E old \in invocations[i].before :
         /\ old.nnochange = nochange_rerun_limit
         /\ invocations[i].sandbox /\ invocations[i].results # <<>>
         /\ old \in db_results

\* Every call of this pass has built and returned a timing for every benchmark
\* that was active.
EveryRunTimed ==
    \A i \in DOMAIN invocations :
        LET inv == invocations[i] IN
        /\ inv.outcome = "returned"
        /\ DOMAIN inv.results =
              {b.checksum : b \in Range(_get_benchmarks_for_rev(inv.before, inv.rev))}
        /\ \A c \in DOMAIN inv.results : "timing" \in DOMAIN inv.results[c]

\* No benchmark is active at any revision, and every benchmark that has started
\* has its row with nnochange at the limit.
Frozen ==
    \A k \in DOMAIN commits :
        /\ _get_benchmarks_for_rev(db_results, commits[k].sha) = <<>>
        /\ \A j \in DOMAIN benchmarks :
              StartedBy(benchmarks[j], commits[k].timestamp) =>
                  \E row \in RowsOf(db_results, benchmarks[j].checksum, commits[k].sha) :
                      row.nnochange = nochange_rerun_limit

\* C20. Under 'min', if run() is called again and again and every run returns a
\* timing for every active benchmark, then from some run on no benchmark is
\* active any more, every nnochange being at the limit, and it stays so.
C20_EventuallyFrozen == (existing = "min" /\ []EveryRunTimed) => <>[]Frozen

\* Under 'min' with limit 2, a run has found every row at the limit and nothing to do.
C20_Witness ==
    /\ existing = "min" /\ nochange_rerun_limit = MaxRerunLimit
    /\ Frozen /\ EveryRunTimed
    /\ \E i \in DOMAIN invocations :
         invocations[i].n_active = 0 /\ ~ invocations[i].sandbox

\* The commits at or after the start-date floor.
AtOrAfterFloor ==
    {c \in Range(commits) : start_date = None \/ c.timestamp >= Val(start_date)}

\* Two timestamps of one calendar day.
SameDay(t, u) == t \div 100 = u \div 100

\* The commits that are the latest of their day among those at or after the floor.
LatestOfDay ==
    {c \in AtOrAfterFloor :
        \A d \in AtOrAfterFloor : SameDay(d.timestamp, c.timestamp) => d.timestamp <= c.timestamp}

\* C14. With run_option 'eod' and a known run_order, the revisions run() selects
\* are the latest commit of every calendar day that has a commit at or after the
\* start-date floor, each once, and nothing else.
C14_EndOfDay ==
    (is_str(run_option, "eod") /\ pc \in {"loop", "retry"}) =>
        /\ Range(revisions) = {c.sha : c \in LatestOfDay}
        /\ Len(revisions) = Cardinality(LatestOfDay)

\* Over {day 1 09:00 -> r1, day 1 17:00 -> r2, day 2 10:00 -> r3} without a floor,
\* 'eod' has selected r2 and r3.
C14_Witness ==
    /\ is_str(run_option, "eod") /\ run_order = "normal" /\ start_date = None
    /\ commits = History3
    /\ pc = "loop"
    /\ revisions = <<"r2", "r3">>

\* run_option or run_order is not one the runner knows.
UnknownOption ==
    \/ /\ "int" \notin DOMAIN run_option
       /\ run_option \notin {[str |-> "eod"], [str |-> "all"], [str |-> "last"]}
    \/ run_order \notin {"normal", "reverse", "multires"}

\* C15. With an unknown run_option or run_order, every call of run() ends in a
\* ValueError and leaves the store (results, blacklist, branches, benchmarks) and
\* the sandbox checkout as they were, without a call of _run_and_write_results.
C15_FailsFast ==
    [][ UnknownOption =>
          /\ pc' = "raised" /\ error' = "ValueError"
          /\ db_vars' = db_vars
          /\ bench_repo' = bench_repo
          /\ invocations' = <<>> /\ ran_revisions' = <<>> ]_vars

\* run() has been called twice with an unknown run_order and a known run_option,
\* and has raised.
C15_Witness ==
    /\ run_order = "bogus" /\ run_option = [str |-> "all"]
    /\ passes = 2 /\ pc = "raised" /\ error = "ValueError"
    /\ db_results = {} /\ db_branches = {} /\ bench_repo.rev = None

\* The benchmarks that were active when call i was made.
ActiveAt(i) == _get_benchmarks_for_rev(invocations[i].before, invocations[i].rev)

\* C16. A call of _run_and_write_results that returns gives (any_succeeded,
\* n_active) with n_active the number of benchmarks active at the call and
\* any_succeeded true iff an outcome the sandbox returned has a timing; with no
\* active benchmark it returns (False, 0) without using the sandbox and leaves
\* the results as they were.
C16_ReturnValue ==
    \A i \in DOMAIN invocations :
        LET inv == invocations[i] IN
        /\ inv.outcome = "returned" =>
              /\ inv.n_active = Len(ActiveAt(i))
              /\ inv.any_succeeded <=>
                    \E c \in DOMAIN inv.results : "timing" \in DOMAIN inv.results[c]
        /\ ActiveAt(i) = <<>> =>
              /\ inv.outcome = "returned"
              /\ ~ inv.any_succeeded /\ inv.n_active = 0
              /\ ~ inv.sandbox
              /\ After(i) = inv.before
              /\ \E row \in db_branches : row.revision = inv.rev

\* One pass has had a call with the first outcome a success and the last a
\* failure, a call without a success, and a call with nothing active.
C16_Witness ==
    /\ \E i \in DOMAIN invocations :
         /\ invocations[i].outcome = "returned" /\ invocations[i].any_succeeded
         /\ \E c \in DOMAIN invocations[i].results :
               "timing" \notin DOMAIN invocations[i].results[c]
    /\ \E i \in DOMAIN invocations :
         /\ invocations[i].outcome = "returned" /\ ~ invocations[i].any_succeeded
         /\ invocations[i].n_active > 0
    /\ \E i \in DOMAIN invocations :
         ActiveAt(i) = <<>> /\ invocations[i].n_active = 0

\* C17 as stated: the second attempt at a revision returns the active count
\* of the first.
C17_SameActiveCount ==
    \A i \in DOMAIN invocations :
        (i > 1 /\ invocations[i].attempt = 2 /\ invocations[i].outcome = "returned") =>
            invocations[i].n_active = invocations[i - 1].n_active

\* C18 as stated: when a call that returns has a new timing for a row with a
\* stored timing, the row is replaced (nnochange 0) if the new timing is better
\* by more than 0.5%, and otherwise kept with nnochange one more.
C18_KeepAtMargin ==
    existing = "min" =>
        \A i \in DOMAIN invocations : \A old \in invocations[i].before :
            LET inv == invocations[i]
                c == old.checksum
            IN  (/\ inv.outcome = "returned" /\ old.revision = inv.rev
                 /\ c \in DOMAIN inv.results /\ "timing" \in DOMAIN inv.results[c]
                 /\ old.timing # None) =>
                    \E row \in RowsOf(After(i), c, inv.rev) :
                        IF BetterByMoreThanMargin(Val(old.timing), inv.results[c].timing)
                        THEN row.timing = Some(inv.results[c].timing) /\ row.nnochange = 0
                        ELSE row.timing = old.timing /\ row.nnochange = old.nnochange + 1

\* The first attempts of this pass that returned, in the order they were made.
FirstAttempts ==
    SelectSeq(invocations, LAMBDA inv : inv.attempt = 1 /\ inv.outcome = "returned")

\* The selected revisions that were not skipped as blacklisted and whose first
\* attempt did not fail to build, in the order of the selection.
RanAsSelected ==
    SelectSeq(revisions, LAMBDA r :
        /\ ~ (use_blacklist /\ r \in blacklist)
        /\ ~ \E i \in DOMAIN invocations :
                /\ invocations[i].rev = r /\ invocations[i].attempt = 1
                /\ invocations[i].outcome = "FailedToBuildError")

\* C21. When run() returns, its list holds, in the order of the selection and
\* once each, the selected revisions that were not skipped as blacklisted and
\* whose first attempt did not fail to build, each with the (any_succeeded,
\* n_active) its first attempt returned, whatever the second attempt returned.
C21_RanRevisions ==
    (pc = "idle" /\ passes >= 1) =>
        /\ [k \in DOMAIN ran_revisions |-> ran_revisions[k][1]] = RanAsSelected
        /\ Len(ran_revisions) = Len(FirstAttempts)
        /\ \A k \in DOMAIN ran_revisions :
              ran_revisions[k] = <<FirstAttempts[k].rev,
                                   <<FirstAttempts[k].any_succeeded,
                                     FirstAttempts[k].n_active>> >>
        /\ \A j \in DOMAIN ran_revisions : \A k \in DOMAIN ran_revisions :
              ran_revisions[j][1] = ran_revisions[k][1] => j = k

\* run() has returned after a build failure at the first revision and, at the
\* second, a first attempt without an outcome and a retry with a success: the
\* list holds the second revision alone, recorded as without success.
C21_Witness ==
    /\ pc = "idle" /\ passes >= 1
    /\ Len(revisions) = 2 /\ Len(ran_revisions) = 1
    /\ ran_revisions[1][1] = revisions[2]
    /\ ~ ran_revisions[1][2][1]
    /\ \E i \in DOMAIN invocations :
         /\ invocations[i].rev = revisions[1]
         /\ invocations[i].outcome = "FailedToBuildError"
    /\ \E i \in DOMAIN invocations :
         /\ invocations[i].rev = revisions[2] /\ invocations[i].attempt = 2
         /\ invocations[i].outcome = "returned" /\ invocations[i].any_succeeded

\* C22. Under 'skip', a call of _run_and_write_results leaves every row it finds
\* in the results table as it is, a failure row too, and does not run a benchmark
\* that has a row for the revision: the benchmark is not active and the sandbox
\* returns no outcome for it.
C22_SkipKeepsRows ==
    existing = "skip" =>
        \A i \in DOMAIN invocations : \A old \in invocations[i].before :
            /\ old \in After(i)
            /\ old.revision = invocations[i].rev =>
                  /\ old.checksum \notin DOMAIN invocations[i].results
                  /\ \A b \in Range(ActiveAt(i)) : b.checksum # old.checksum

\* Under 'skip', a later pass has come back to a revision with a stored failure
\* and a stored success, has run nothing, and both rows are still there.
C22_Witness ==
    /\ existing = "skip" /\ passes >= 2
    /\ \E i \in DOMAIN invocations :
         /\ ~ invocations[i].sandbox
         /\ \E old \in invocations[i].before :
               /\ old.revision = invocations[i].rev
               /\ old.timing = None /\ old \in db_results
         /\ \E old \in invocations[i].before :
               /\ old.revision = invocations[i].rev
               /\ old.timing # None /\ old \in db_results

=============================================================================
